---- MODULE Spec2Model ----
(***************************************************************************)
(* Model of the download core of the BitTorrent client: the piece manager  *)
(* (scheduler), the peer connection manager with its peer sessions, and    *)
(* the piece saver (verifier), wired by mpsc channels.                     *)
(***************************************************************************)
EXTENDS Integers, Sequences, FiniteSets, TLC

\* ------------------------------------------------------------------ bounds
NumPieces == 2
NumPeers == 2
PieceLength == 2
MaxHaves == 1

Pieces == 0 .. (NumPieces - 1)
Peers == 1 .. NumPeers

\* ------------------------------------------------------------ map helpers
MapPut(m, k, v) == [x \in (DOMAIN m) \cup {k} |-> IF x = k THEN v ELSE m[x]]
MapRemove(m, k) == [x \in (DOMAIN m) \ {k} |-> m[x]]
EmptyMap == [x \in {} |-> 0]

RECURSIVE SumSeq(_)
SumSeq(s) == IF s = <<>> THEN 0 ELSE Head(s) + SumSeq(Tail(s))

RECURSIVE Pow2(_)
Pow2(n) == IF n = 0 THEN 1 ELSE 2 * Pow2(n - 1)

\* --------------------------------------------------------------- bitfield
\* has_piece that tests the whole byte instead of one bit.
has_piece_WholeByte(bitfield, index) ==
    LET byte_index == index \div 8
    IN  IF byte_index >= Len(bitfield)
        THEN FALSE
        ELSE bitfield[byte_index + 1] # 0

\* has_piece that counts the bits of a byte from the low end.
has_piece_LowBitFirst(bitfield, index) ==
    LET byte_index == index \div 8
        offset == index % 8
    IN  IF byte_index >= Len(bitfield)
        THEN FALSE
        ELSE ((bitfield[byte_index + 1] \div Pow2(offset)) % 2) # 0

\* Bitfield::has_piece: bit (7 - index % 8) of byte index / 8, false beyond
\* the end of the vector.
has_piece(bitfield, index) ==
    LET byte_index == index \div 8
        offset == index % 8
    IN  IF byte_index >= Len(bitfield)
        THEN FALSE
        ELSE ((bitfield[byte_index + 1] \div Pow2(7 - offset)) % 2) # 0

\* The bitfield payloads a peer may send: the empty vector and every one-byte
\* vector over the pieces of the torrent.
ByteOf(S) == SumSeq([k \in 1 .. NumPieces |-> IF (k - 1) \in S THEN Pow2(8 - k) ELSE 0])
BitfieldInputs == {<<>>} \cup {<<ByteOf(S)>> : S \in (SUBSET Pieces) \ {{}}}

\* ------------------------------------------------------------ piece bytes
NoBytes == <<>>

\* The content of the torrent, piece by piece.
File == [i \in Pieces |-> [k \in 1 .. PieceLength |->
            IF k = 1 THEN i % 2 ELSE IF k = PieceLength THEN 2 ELSE 1]]

\* What a peer may serve for piece i, always of the piece length: the content,
\* the content reversed (other bytes, same digest), the content with its first
\* byte changed (another digest).
Reversed(b) == [k \in 1 .. Len(b) |-> b[Len(b) + 1 - k]]
Corrupted(b) == [k \in 1 .. Len(b) |-> IF k = 1 THEN (b[1] + 1) % 3 ELSE b[k]]
ServedBytes(i) == {File[i], Reversed(File[i]), Corrupted(File[i])}

\* PieceSaverWorker::sha1_of: a digest of the bytes; distinct byte strings
\* may share a digest.
sha1_of(vec) == SumSeq(vec)

\* metainfo.info.pieces handed to new_piece_saver
sha1_pieces == [i \in Pieces |-> sha1_of(File[i])]

\* valid_piece comparing the received digest with itself.
valid_piece_SelfCompare(piece_bytes, piece_index) ==
    LET recieved_piece_sha1 == sha1_of(piece_bytes)
    IN  recieved_piece_sha1 = recieved_piece_sha1

\* PieceSaverWorker::valid_piece
valid_piece(piece_bytes, piece_index) ==
    LET real_piece_sha1 == sha1_pieces[piece_index]
        recieved_piece_sha1 == sha1_of(piece_bytes)
    IN  recieved_piece_sha1 = real_piece_sha1

\* --------------------------------------------------------------- messages
\* PieceManagerMessage
PeerPieces(p, bf) == [type |-> "PeerPieces", peer |-> p, bitfield |-> bf]
SuccessfulDownload(i, p) == [type |-> "SuccessfulDownload", piece |-> i, peer |-> p]
FailedDownload(i, p) == [type |-> "FailedDownload", piece |-> i, peer |-> p]
FailedConnection(p) == [type |-> "FailedConnection", peer |-> p]
Have(p, i) == [type |-> "Have", peer |-> p, piece |-> i]
FinishedEstablishingConnections(n) == [type |-> "FinishedEstablishingConnections", count |-> n]
\* PeerConnectionManagerMessage
DownloadPiece(p, i) == [type |-> "DownloadPiece", peer |-> p, piece |-> i]
CloseConnections == [type |-> "CloseConnections"]
\* PieceSaverMessage
ValidateAndSavePiece(i, b) == [type |-> "ValidateAndSavePiece", piece |-> i, bytes |-> b]
StopSaving == [type |-> "StopSaving"]
\* The Stop variant of the scheduler's channel
Stop == [type |-> "Stop"]

\* mpsc::Sender::send that puts the message ahead of the waiting ones.
channel_send_Front(inbox, m) == <<m>> \o inbox

\* mpsc::Sender::send: the channel delivers in the order of the sends.
channel_send(inbox, m) == Append(inbox, m)

VARIABLES
    \* PieceManagerWorker
    allowed_peers_to_download_piece,
    piece_asked_to,
    pieces_without_peer,
    ready_to_download_pieces,
    peer_pieces_to_download_count,
    established_connections,
    \* the FinishedEstablishingConnections latch, and whether the worker runs,
    \* is done (every piece Complete) or has failed (fatal stall)
    connections_latched,
    pm_state,
    \* history: the failures the scheduler has handled, as (type, piece, peer)
    reverted,
    \* channels
    pm_inbox,
    cm_inbox,
    saver_inbox,
    \* connection manager: whether it runs, whether it has reported the
    \* connection attempts
    cm_state,
    finished_sent,
    \* peer sessions
    session,
    session_piece,
    haves_sent,
    \* piece saver
    disk,
    saver_state,
    \* the selection policy applied to one scheduler state
    sel_state,
    sel_peer,
    sel_result,
    \* one TcpStream: the messages the writing end sends, how many it has
    \* sent, the bytes in flight, what the reading end has returned
    to_send,
    sent_count,
    stream,
    received,
    reader,
    \* one PeerConnection: where its caller stands, its fields, what it has
    \* sent, the handshake response and the last message it read, the
    \* results of open_connection and request_piece, request_piece's locals
    conn_pc,
    peer_choking,
    bitfield,
    outbox,
    handshake_response,
    last_received,
    open_result,
    piece_result,
    download,
    blocks,
    \* one Bitfield: its byte vector and the last call made on it
    bits,
    bits_call,
    \* run_with_torrent: whether it has started closing the threads
    app_state,
    \* one bencode value, its encoding, and the encoding of its parse
    benc_value,
    benc_bytes,
    benc_again

core_vars == <<allowed_peers_to_download_piece, piece_asked_to, pieces_without_peer,
               ready_to_download_pieces, peer_pieces_to_download_count,
               established_connections, connections_latched, pm_state, reverted,
               pm_inbox, cm_inbox, saver_inbox, cm_state, finished_sent,
               session, session_piece, haves_sent,
               disk, saver_state>>
sel_vars == <<sel_state, sel_peer, sel_result>>
\* The state outside the composed system.
codec_vars == <<to_send, sent_count, stream, received, reader>>
conn_vars == <<conn_pc, peer_choking, bitfield, outbox, handshake_response, last_received,
               open_result, piece_result, download, blocks>>
bits_vars == <<bits, bits_call>>
\* The units examined on their own besides the three above, and the
\* application's main thread.
benc_vars == <<benc_value, benc_bytes, benc_again>>
unit_vars == <<bits_vars, app_state, benc_vars>>
lab_vars == <<sel_vars, codec_vars, conn_vars, unit_vars>>

vars == <<core_vars, lab_vars>>

pm_vars == <<allowed_peers_to_download_piece, piece_asked_to, pieces_without_peer,
             ready_to_download_pieces, peer_pieces_to_download_count,
             established_connections, connections_latched, pm_state, reverted>>
cm_vars == <<cm_state, finished_sent>>
session_vars == <<session, session_piece, haves_sent>>
saver_vars == <<disk, saver_state>>

\* ------------------------------------------------------ scheduler: views
\* PieceState of the data model, read off the worker's collections.
Complete(i) == i \notin DOMAIN allowed_peers_to_download_piece
AssignedTo(i, p) == p \in DOMAIN piece_asked_to /\ piece_asked_to[p] = i
Assigned(i) == \E p \in Peers : AssignedTo(i, p)
Missing(i) == ~Complete(i) /\ ~Assigned(i)
availability(i) ==
    IF i \in DOMAIN allowed_peers_to_download_piece
    THEN allowed_peers_to_download_piece[i] ELSE {}

\* --------------------------------------------------- scheduler: new state
\* The range of new_piece_manager with an inclusive upper end.
RemainingRange_Inclusive(number_of_pieces) == 0 .. number_of_pieces

\* new_piece_manager: the pieces still to be downloaded
RemainingRange(number_of_pieces) == 0 .. (number_of_pieces - 1)

InitialPiecesInputs == {{}, {0}}

\* new_piece_manager
new_piece_manager(number_of_pieces, initial_pieces) ==
    LET remaining == {i \in RemainingRange(number_of_pieces) : i \notin initial_pieces}
    IN  /\ allowed_peers_to_download_piece = [i \in remaining |-> {}]
        /\ piece_asked_to = EmptyMap
        /\ pieces_without_peer = {}
        /\ ready_to_download_pieces = remaining
        /\ peer_pieces_to_download_count = EmptyMap
        /\ established_connections = 0

\* Nothing is being selected.
NoValue == [none |-> TRUE]
\* No handshake response has been read.
NoResponse == "none"
SelParked == sel_state = NoValue /\ sel_peer = NoValue /\ sel_result = NoValue
\* No stream is open.
CodecParked ==
    /\ to_send = NoValue /\ sent_count = 0 /\ stream = <<>>
    /\ received = <<>> /\ reader = NoValue
\* No peer connection exists.
ConnParked ==
    /\ conn_pc = NoValue /\ peer_choking = NoValue /\ bitfield = NoValue
    /\ outbox = <<>> /\ handshake_response = NoResponse /\ last_received = NoValue
    /\ open_result = NoValue /\ piece_result = NoValue
    /\ download = NoValue /\ blocks = <<>>
\* No Bitfield is examined.
BitsParked == bits = <<>> /\ bits_call = NoValue
\* run_with_torrent has not reached the closing of the threads.
AppRunning == app_state = "running"
\* No bencode value is encoded.
BencParked == benc_value = NoValue /\ benc_bytes = <<>> /\ benc_again = <<>>
UnitParked == BitsParked /\ AppRunning /\ BencParked
LabParked == SelParked /\ CodecParked /\ ConnParked /\ UnitParked

\* The composed system as run_with_torrent starts it.
CoreInit(initial_pieces) ==
    /\ new_piece_manager(NumPieces, initial_pieces)
    /\ connections_latched = FALSE
    /\ pm_state = "running"
    /\ reverted = {}
    /\ cm_state = "running"
    /\ finished_sent = FALSE
    /\ pm_inbox = <<>>
    /\ cm_inbox = <<>>
    /\ saver_inbox = <<>>
    /\ session = [p \in Peers |-> "connecting"]
    /\ session_piece = EmptyMap
    /\ haves_sent = 0
    /\ disk = [i \in Pieces |-> IF i \in initial_pieces THEN File[i] ELSE NoBytes]
    /\ saver_state = "listening"

\* The composed system not running.
CoreParked == CoreInit({})

Init ==
    /\ LabParked
    /\ \E initial_pieces \in InitialPiecesInputs : CoreInit(initial_pieces)

\* ------------------------------------------------- scheduler: handlers
\* The worker's collections as one value, with the orders a handler sends to
\* the connection manager.
SchedState ==
    [allowed |-> allowed_peers_to_download_piece,
     asked |-> piece_asked_to,
     orphans |-> pieces_without_peer,
     ready |-> ready_to_download_pieces,
     count |-> peer_pieces_to_download_count,
     orders |-> <<>>]

\* peer_pieces_to_download_count: for every known peer, how many remaining
\* pieces it advertises.
Recount(S) ==
    [S EXCEPT !.count = [p \in DOMAIN S.count |->
        Cardinality({i \in DOMAIN S.allowed : p \in S.allowed[i]})]]

\* Candidates that ignores what the peer advertises.
Candidates_AnyReady(S, p) == S.ready \cap DOMAIN S.allowed

\* Selection policy: ready pieces the peer advertises ...
Candidates(S, p) == {i \in S.ready \cap DOMAIN S.allowed : p \in S.allowed[i]}

\* ChoosePiece that takes the smallest index whatever the availability.
ChoosePiece_SmallestIndex(S, p) ==
    CHOOSE c \in Candidates(S, p) : \A d \in Candidates(S, p) : c <= d

\* ... rarest first, ties broken by the smallest index.
ChoosePiece(S, p) ==
    CHOOSE c \in Candidates(S, p) :
        \A d \in Candidates(S, p) :
            \/ Cardinality(S.allowed[c]) < Cardinality(S.allowed[d])
            \/ /\ Cardinality(S.allowed[c]) = Cardinality(S.allowed[d])
               /\ c <= d

\* Eligible that forgets the outstanding assignment.
Eligible_KnownOnly(S, p) == p \in DOMAIN S.count

\* A peer is eligible when the scheduler knows it and it has no outstanding
\* assignment.
Eligible(S, p) == p \in DOMAIN S.count /\ p \notin DOMAIN S.asked

\* Dispatch that leaves the chosen piece in ready.
Dispatch_KeepsReady(S, p) ==
    IF Eligible(S, p) /\ Candidates(S, p) # {}
    THEN LET chosen == ChoosePiece(S, p)
         IN  [S EXCEPT !.asked = MapPut(@, p, chosen),
                       !.orders = Append(@, DownloadPiece(p, chosen))]
    ELSE S

\* Dispatching an assignment: Assigned{peer}, out of ready, DownloadPiece sent.
Dispatch(S, p) ==
    IF Eligible(S, p) /\ Candidates(S, p) # {}
    THEN LET chosen == ChoosePiece(S, p)
         IN  [S EXCEPT !.asked = MapPut(@, p, chosen),
                       !.ready = @ \ {chosen},
                       !.orders = Append(@, DownloadPiece(p, chosen))]
    ELSE S

RECURSIVE DispatchAll(_, _)
DispatchAll(S, order) ==
    IF order = <<>> THEN S
    ELSE DispatchAll(Dispatch(S, Head(order)), Tail(order))

\* The orders in which the idle peers may be visited.
PeerOrders ==
    {o \in [1 .. NumPeers -> Peers] : \A a, b \in 1 .. NumPeers : a # b => o[a] # o[b]}

\* PeerPieces(peer_id, bitfield)
HandlePeerPieces(S, p, bf) ==
    LET allowed == [i \in DOMAIN S.allowed |->
                        IF has_piece(bf, i) THEN S.allowed[i] \cup {p} ELSE S.allowed[i]]
        reachable == {i \in S.orphans : allowed[i] # {}}
    IN  Dispatch(Recount([S EXCEPT !.allowed = allowed,
                                   !.orphans = @ \ reachable,
                                   !.ready = @ \cup reachable,
                                   !.count = MapPut(@, p, 0)]), p)

\* Have that inserts the availability entry of a piece it no longer tracks.
HandleHave_Inserts(S, p, i) ==
    LET holders == IF i \in DOMAIN S.allowed THEN S.allowed[i] ELSE {}
        moved == IF i \in S.orphans \/ i \notin DOMAIN S.allowed THEN {i} ELSE {}
    IN  Dispatch(Recount([S EXCEPT !.allowed = MapPut(@, i, holders \cup {p}),
                                   !.orphans = @ \ {i},
                                   !.ready = @ \cup moved]), p)

\* Have(peer_id, piece_id)
HandleHave(S, p, i) ==
    IF i \in DOMAIN S.allowed
    THEN LET moved == IF i \in S.orphans THEN {i} ELSE {}
         IN  Dispatch(Recount([S EXCEPT !.allowed[i] = @ \cup {p},
                                        !.orphans = @ \ moved,
                                        !.ready = @ \cup moved]), p)
    ELSE S

\* SuccessfulDownload(piece_id, peer_id)
HandleSuccessfulDownload(S, i, p) ==
    Dispatch(Recount([S EXCEPT !.allowed = MapRemove(@, i),
                               !.asked = MapRemove(@, p),
                               !.ready = @ \ {i},
                               !.orphans = @ \ {i}]), p)

\* FailedDownload that keeps the peer in the piece's availability.
RevertFailedDownload_KeepsPeer(S, i, p) ==
    IF i \in DOMAIN S.allowed
    THEN LET holders == S.allowed[i]
         IN  Recount([S EXCEPT
                 !.asked = MapRemove(@, p),
                 !.ready = IF holders = {} THEN @ \ {i} ELSE @ \cup {i},
                 !.orphans = IF holders = {} THEN @ \cup {i} ELSE @ \ {i}])
    ELSE [S EXCEPT !.asked = MapRemove(@, p)]

\* FailedDownload(piece_id, peer_id): the piece is Missing, the peer is out of
\* its availability, its ready/orphans membership is recomputed.
RevertFailedDownload(S, i, p) ==
    IF i \in DOMAIN S.allowed
    THEN LET holders == S.allowed[i] \ {p}
         IN  Recount([S EXCEPT
                 !.allowed[i] = holders,
                 !.asked = MapRemove(@, p),
                 !.ready = IF holders = {} THEN @ \ {i} ELSE @ \cup {i},
                 !.orphans = IF holders = {} THEN @ \cup {i} ELSE @ \ {i}])
    ELSE [S EXCEPT !.asked = MapRemove(@, p)]

\* FailedDownload(piece_id, peer_id), then the idle peers are reassigned.
HandleFailedDownload(S, i, p, order) ==
    DispatchAll(RevertFailedDownload(S, i, p), order)

\* FailedConnection that forgets the piece the peer was downloading.
RevertFailedConnection_KeepsAssignment(S, p) ==
    LET allowed == [i \in DOMAIN S.allowed |-> S.allowed[i] \ {p}]
        emptied == {i \in DOMAIN S.allowed : S.allowed[i] # {} /\ allowed[i] = {}}
        missing == S.ready \cup S.orphans
    IN  Recount([S EXCEPT
            !.allowed = allowed,
            !.asked = MapRemove(@, p),
            !.count = MapRemove(@, p),
            !.orphans = (@ \cup emptied) \cap missing,
            !.ready = (@ \ emptied)])

\* FailedConnection(peer_id): the peer's state is purged, its piece is Missing,
\* pieces left without a peer are orphans.
RevertFailedConnection(S, p) ==
    LET reverted_pieces == IF p \in DOMAIN S.asked
                           THEN {S.asked[p]} \cap DOMAIN S.allowed ELSE {}
        allowed == [i \in DOMAIN S.allowed |-> S.allowed[i] \ {p}]
        emptied == {i \in DOMAIN S.allowed : S.allowed[i] # {} /\ allowed[i] = {}}
        missing == S.ready \cup S.orphans \cup reverted_pieces
    IN  Recount([S EXCEPT
            !.allowed = allowed,
            !.asked = MapRemove(@, p),
            !.count = MapRemove(@, p),
            !.orphans = (@ \cup emptied) \cap missing,
            !.ready = ((@ \cup reverted_pieces) \ emptied)])

\* FailedConnection(peer_id), then the idle peers are reassigned.
HandleFailedConnection(S, p, order) ==
    DispatchAll(RevertFailedConnection(S, p), order)

\* What a handled failure leaves in the history.
Failure(type, i, p) == [type |-> type, piece |-> i, peer |-> p]

\* is_asking_tracker: the tracker is not asked again.
is_asking_tracker == FALSE

\* Fatal stall: pieces remain, all of them orphans, no session is downloading,
\* the connection attempts have settled and the tracker is not being asked.
Stalled(S, latched) ==
    /\ DOMAIN S.allowed # {}
    /\ S.orphans = DOMAIN S.allowed
    /\ S.asked = EmptyMap
    /\ latched
    /\ ~is_asking_tracker

\* Termination: AllDone when every piece is Complete, failure on a fatal stall.
Outcome(S, latched) ==
    IF DOMAIN S.allowed = {} THEN "done"
    ELSE IF Stalled(S, latched) THEN "failed"
    ELSE "running"

\* PieceSaverSender::stop_saving: the send is dropped when the worker no
\* longer receives.
stop_saving(inbox) ==
    IF saver_state = "listening" THEN Append(inbox, StopSaving) ELSE inbox

\* The handler's result becomes the worker's state; its orders go out, and
\* on termination the stop signals.
Commit(S, latched) ==
    /\ allowed_peers_to_download_piece' = S.allowed
    /\ piece_asked_to' = S.asked
    /\ pieces_without_peer' = S.orphans
    /\ ready_to_download_pieces' = S.ready
    /\ peer_pieces_to_download_count' = S.count
    /\ connections_latched' = latched
    /\ pm_state' = Outcome(S, latched)
    /\ IF Outcome(S, latched) = "running"
       THEN /\ cm_inbox' = cm_inbox \o S.orders
            /\ saver_inbox' = saver_inbox
       ELSE /\ cm_inbox' = (cm_inbox \o S.orders) \o <<CloseConnections>>
            /\ saver_inbox' = stop_saving(saver_inbox)

PMReceives(type) ==
    pm_state = "running" /\ pm_inbox # <<>> /\ Head(pm_inbox).type = type

PMPeerPieces ==
    /\ PMReceives("PeerPieces")
    /\ LET m == Head(pm_inbox)
       IN  Commit(HandlePeerPieces(SchedState, m.peer, m.bitfield), connections_latched)
    /\ pm_inbox' = Tail(pm_inbox)
    /\ UNCHANGED <<lab_vars, established_connections, reverted, cm_vars, session_vars, saver_vars>>

PMHave ==
    /\ PMReceives("Have")
    /\ LET m == Head(pm_inbox)
       IN  Commit(HandleHave(SchedState, m.peer, m.piece), connections_latched)
    /\ pm_inbox' = Tail(pm_inbox)
    /\ UNCHANGED <<lab_vars, established_connections, reverted, cm_vars, session_vars, saver_vars>>

PMSuccessfulDownload ==
    /\ PMReceives("SuccessfulDownload")
    /\ LET m == Head(pm_inbox)
       IN  Commit(HandleSuccessfulDownload(SchedState, m.piece, m.peer), connections_latched)
    /\ pm_inbox' = Tail(pm_inbox)
    /\ UNCHANGED <<lab_vars, established_connections, reverted, cm_vars, session_vars, saver_vars>>

PMFailedDownload ==
    /\ PMReceives("FailedDownload")
    /\ \E order \in PeerOrders :
         LET m == Head(pm_inbox)
         IN  Commit(HandleFailedDownload(SchedState, m.piece, m.peer, order),
                    connections_latched)
    /\ reverted' = reverted \cup
            {Failure("FailedDownload", Head(pm_inbox).piece, Head(pm_inbox).peer)}
    /\ pm_inbox' = Tail(pm_inbox)
    /\ UNCHANGED <<lab_vars, established_connections, cm_vars, session_vars, saver_vars>>

PMFailedConnection ==
    /\ PMReceives("FailedConnection")
    /\ \E order \in PeerOrders :
         LET m == Head(pm_inbox)
         IN  Commit(HandleFailedConnection(SchedState, m.peer, order), connections_latched)
    /\ reverted' = reverted \cup
            {Failure("FailedConnection", i, Head(pm_inbox).peer) :
                i \in {j \in Pieces : AssignedTo(j, Head(pm_inbox).peer)}}
    /\ pm_inbox' = Tail(pm_inbox)
    /\ UNCHANGED <<lab_vars, established_connections, cm_vars, session_vars, saver_vars>>

\* FinishedEstablishingConnections(n): the latch is set.
PMFinishedEstablishingConnections ==
    /\ PMReceives("FinishedEstablishingConnections")
    /\ established_connections' = Head(pm_inbox).count
    /\ Commit(SchedState, TRUE)
    /\ pm_inbox' = Tail(pm_inbox)
    /\ UNCHANGED <<lab_vars, reverted, cm_vars, session_vars, saver_vars>>

\* ------------------------------------- connection manager and sessions
\* open() of one candidate peer settles: the bitfield goes to the scheduler.
OpenConnection(p, bf) ==
    /\ session[p] = "connecting"
    /\ session' = [session EXCEPT ![p] = "open"]
    /\ pm_inbox' = channel_send(pm_inbox, PeerPieces(p, bf))
    /\ UNCHANGED <<lab_vars, pm_vars, cm_vars, cm_inbox, saver_inbox, session_piece, haves_sent, saver_vars>>

\* open() fails (dial, handshake, read): the session is Failed.
OpenConnectionFails(p) ==
    /\ session[p] = "connecting"
    /\ session' = [session EXCEPT ![p] = "failed"]
    /\ pm_inbox' = channel_send(pm_inbox, FailedConnection(p))
    /\ UNCHANGED <<lab_vars, pm_vars, cm_vars, cm_inbox, saver_inbox, session_piece, haves_sent, saver_vars>>

\* DownloadPiece(peer_id, piece_index): look up the handle, start download_piece.
CMDownloadPiece ==
    /\ cm_state = "running"
    /\ cm_inbox # <<>>
    /\ LET m == Head(cm_inbox)
       IN  /\ m.type = "DownloadPiece"
           /\ session[m.peer] = "open"
           /\ session' = [session EXCEPT ![m.peer] = "downloading"]
           /\ session_piece' = MapPut(session_piece, m.peer, m.piece)
    /\ cm_inbox' = Tail(cm_inbox)
    /\ UNCHANGED <<lab_vars, pm_vars, cm_vars, pm_inbox, saver_inbox, haves_sent, saver_vars>>

\* Every open() attempt has settled: the count of sessions goes to the
\* scheduler.
CMFinishedEstablishingConnections ==
    /\ cm_state = "running"
    /\ ~finished_sent
    /\ \A p \in Peers : session[p] # "connecting"
    /\ finished_sent' = TRUE
    /\ pm_inbox' = channel_send(pm_inbox, FinishedEstablishingConnections(
            Cardinality({p \in Peers : session[p] # "failed"})))
    /\ UNCHANGED <<lab_vars, pm_vars, cm_state, cm_inbox, saver_inbox, session_vars, saver_vars>>

\* CloseConnections: close() on every handle, and the worker leaves its loop.
CMCloseConnections ==
    /\ cm_state = "running"
    /\ cm_inbox # <<>>
    /\ Head(cm_inbox).type = "CloseConnections"
    /\ cm_state' = "stopped"
    /\ session' = [p \in Peers |-> IF session[p] = "failed" THEN "failed" ELSE "closed"]
    /\ session_piece' = EmptyMap
    /\ cm_inbox' = Tail(cm_inbox)
    /\ UNCHANGED <<lab_vars, pm_vars, finished_sent, pm_inbox, saver_inbox, haves_sent, saver_vars>>

\* A Have received by a session that is open, parked or downloading.
SessionHave(p, i) ==
    /\ session[p] \in {"open", "downloading"}
    /\ haves_sent < MaxHaves
    /\ haves_sent' = haves_sent + 1
    /\ pm_inbox' = channel_send(pm_inbox, Have(p, i))
    /\ UNCHANGED <<lab_vars, pm_vars, cm_vars, cm_inbox, saver_inbox, session, session_piece, saver_vars>>

\* PieceSaverSender::validate_and_save_piece: the send is dropped when the
\* worker no longer receives.
validate_and_save_piece(piece_index, piece_bytes) ==
    saver_inbox' = IF saver_state = "listening"
                   THEN Append(saver_inbox, ValidateAndSavePiece(piece_index, piece_bytes))
                   ELSE saver_inbox

\* download_piece returned bytes of the piece length: SuccessfulDownload to the
\* scheduler, the bytes to the verifier.
SessionSuccessfulDownload(p, bytes) ==
    /\ session[p] = "downloading"
    /\ bytes \in ServedBytes(session_piece[p])
    /\ session' = [session EXCEPT ![p] = "open"]
    /\ session_piece' = MapRemove(session_piece, p)
    /\ validate_and_save_piece(session_piece[p], bytes)
    /\ pm_inbox' = channel_send(pm_inbox, SuccessfulDownload(session_piece[p], p))
    /\ UNCHANGED <<lab_vars, pm_vars, cm_vars, cm_inbox, haves_sent, saver_vars>>

\* download_piece failed on the protocol (choke, invalid block, invalid piece).
SessionFailedDownload(p) ==
    /\ session[p] = "downloading"
    /\ session' = [session EXCEPT ![p] = "open"]
    /\ session_piece' = MapRemove(session_piece, p)
    /\ pm_inbox' = channel_send(pm_inbox, FailedDownload(session_piece[p], p))
    /\ UNCHANGED <<lab_vars, pm_vars, cm_vars, cm_inbox, saver_inbox, haves_sent, saver_vars>>

\* download_piece failed on the transport: the session is Failed.
SessionFailedConnection(p) ==
    /\ session[p] = "downloading"
    /\ session' = [session EXCEPT ![p] = "failed"]
    /\ session_piece' = MapRemove(session_piece, p)
    /\ pm_inbox' = channel_send(pm_inbox, FailedConnection(p))
    /\ UNCHANGED <<lab_vars, pm_vars, cm_vars, cm_inbox, saver_inbox, haves_sent, saver_vars>>

\* ------------------------------------------------------------ piece saver
\* PieceSaverWorker::make_validation_and_save_piece; save_ok is the result of
\* save_piece_in_disk, whose error is unwrapped (the worker thread panics).
make_validation_and_save_piece(piece_index, piece_bytes, save_ok) ==
    IF valid_piece(piece_bytes, piece_index)
    THEN IF save_ok
         THEN /\ disk' = [disk EXCEPT ![piece_index] = piece_bytes]
              /\ saver_state' = saver_state
              /\ saver_inbox' = Tail(saver_inbox)
         ELSE /\ disk' = disk
              /\ saver_state' = "panicked"
              /\ saver_inbox' = <<>>
    ELSE /\ disk' = disk
         /\ saver_state' = saver_state
         /\ saver_inbox' = Tail(saver_inbox)

\* PieceSaverWorker::listen, ValidateAndSavePiece arm
SaverValidateAndSavePiece ==
    /\ saver_state = "listening"
    /\ saver_inbox # <<>>
    /\ Head(saver_inbox).type = "ValidateAndSavePiece"
    /\ \E save_ok \in BOOLEAN :
         make_validation_and_save_piece(Head(saver_inbox).piece, Head(saver_inbox).bytes, save_ok)
    /\ UNCHANGED <<lab_vars, pm_vars, cm_vars, pm_inbox, cm_inbox, session_vars>>

\* PieceSaverWorker::listen, StopSaving arm
SaverStopSaving ==
    /\ saver_state = "listening"
    /\ saver_inbox # <<>>
    /\ Head(saver_inbox).type = "StopSaving"
    /\ saver_state' = "stopped"
    /\ saver_inbox' = Tail(saver_inbox)
    /\ UNCHANGED <<lab_vars, pm_vars, cm_vars, pm_inbox, cm_inbox, session_vars, disk>>

Next ==
    \/ PMPeerPieces
    \/ PMHave
    \/ PMSuccessfulDownload
    \/ PMFailedDownload
    \/ PMFailedConnection
    \/ PMFinishedEstablishingConnections
    \/ CMFinishedEstablishingConnections
    \/ CMCloseConnections
    \/ SaverStopSaving
    \/ \E p \in Peers, bf \in BitfieldInputs : OpenConnection(p, bf)
    \/ \E p \in Peers : OpenConnectionFails(p)
    \/ CMDownloadPiece
    \/ \E p \in Peers, i \in Pieces : SessionHave(p, i)
    \/ \E p \in Peers, i \in Pieces : \E bytes \in ServedBytes(i) : SessionSuccessfulDownload(p, bytes)
    \/ \E p \in Peers : SessionFailedDownload(p)
    \/ \E p \in Peers : SessionFailedConnection(p)
    \/ SaverValidateAndSavePiece

Spec == Init /\ [][Next]_vars

\* ------------------------------------------------- the workers scheduled
\* One step of each worker thread's receive loop.
PMStep ==
    \/ PMPeerPieces
    \/ PMHave
    \/ PMSuccessfulDownload
    \/ PMFailedDownload
    \/ PMFailedConnection
    \/ PMFinishedEstablishingConnections
CMStep ==
    \/ CMDownloadPiece
    \/ CMFinishedEstablishingConnections
    \/ CMCloseConnections
SaverStep ==
    \/ SaverValidateAndSavePiece
    \/ SaverStopSaving

\* A download settles: served, failed on the protocol or on the transport.
SessionSettles(p) ==
    \/ \E i \in Pieces : \E bytes \in ServedBytes(i) : SessionSuccessfulDownload(p, bytes)
    \/ SessionFailedDownload(p)
    \/ SessionFailedConnection(p)

\* An open() attempt settles.
OpenSettles(p) ==
    \/ \E bf \in BitfieldInputs : OpenConnection(p, bf)
    \/ OpenConnectionFails(p)

\* Every worker thread that can take a step eventually takes one, and every
\* attempt on the network settles (blocking reads time out).
Fairness ==
    /\ WF_vars(PMStep)
    /\ WF_vars(CMStep)
    /\ WF_vars(SaverStep)
    /\ \A p \in Peers : WF_vars(SessionSettles(p))
    /\ \A p \in Peers : WF_vars(OpenSettles(p))

SpecFair == Init /\ [][Next]_vars /\ Fairness

\* ------------------------------------------------------- no fault occurs
\* The peer serves the content of the piece asked for.
FaultFreeDownload(p) ==
    /\ p \in DOMAIN session_piece
    /\ SessionSuccessfulDownload(p, File[session_piece[p]])

\* The verifier's write succeeds.
FaultFreeSave == SaverValidateAndSavePiece /\ saver_state' = "listening"

NextFaultFree ==
    \/ PMPeerPieces
    \/ PMHave
    \/ PMSuccessfulDownload
    \/ PMFinishedEstablishingConnections
    \/ CMDownloadPiece
    \/ CMFinishedEstablishingConnections
    \/ CMCloseConnections
    \/ FaultFreeSave
    \/ SaverStopSaving
    \/ \E p \in Peers, bf \in BitfieldInputs : OpenConnection(p, bf)
    \/ \E p \in Peers, i \in Pieces : SessionHave(p, i)
    \/ \E p \in Peers : FaultFreeDownload(p)

FairnessFaultFree ==
    /\ WF_vars(PMPeerPieces \/ PMHave \/ PMSuccessfulDownload
                  \/ PMFinishedEstablishingConnections)
    /\ WF_vars(CMStep)
    /\ WF_vars(FaultFreeSave \/ SaverStopSaving)
    /\ \A p \in Peers : WF_vars(FaultFreeDownload(p))
    /\ \A p \in Peers : WF_vars(\E bf \in BitfieldInputs : OpenConnection(p, bf))

SpecFaultFree == Init /\ [][NextFaultFree]_vars /\ FairnessFaultFree

\* ------------------------------------------------- closing the threads
\* run_with_torrent, "Start closing threads": stop to the scheduler, the
\* connection manager and the verifier, in this order, before any join.
AppStop ==
    /\ app_state = "running"
    /\ app_state' = "stopping"
    /\ pm_inbox' = channel_send(pm_inbox, Stop)
    /\ cm_inbox' = Append(cm_inbox, CloseConnections)
    /\ saver_inbox' = stop_saving(saver_inbox)
    /\ UNCHANGED <<sel_vars, codec_vars, conn_vars, bits_vars, benc_vars, pm_vars, cm_vars,
                   session_vars, saver_vars>>

\* The scheduler handles Stop and leaves its loop.
PMStop ==
    /\ PMReceives("Stop")
    /\ pm_state' = "stopped"
    /\ pm_inbox' = Tail(pm_inbox)
    /\ UNCHANGED <<lab_vars, allowed_peers_to_download_piece, piece_asked_to,
                   pieces_without_peer, ready_to_download_pieces,
                   peer_pieces_to_download_count, established_connections,
                   connections_latched, reverted, cm_inbox, saver_inbox,
                   cm_vars, session_vars, saver_vars>>

\* What goes wrong in the peer session that run_with_torrent runs itself.
SessionErrors == {"connect refused", "reset", "malformed frame", "invalid block"}

\* How the session ends on the error: TcpStream::connect and read_exact are
\* unwrapped, so a refused connection and a reset panic the calling thread;
\* an unknown message id and an invalid block come back as Err.
run_peer_session(error) ==
    IF error \in {"connect refused", "reset"} THEN "panicked" ELSE "returned_err"

\* run_with_torrent, the session with the first peer of the tracker's list
\* fails: connect_to_peer(peer)? or run()? leaves the function, or the thread
\* panics, before "Start closing threads".
AppPeerSessionFails(error) ==
    /\ app_state = "running"
    /\ app_state' = run_peer_session(error)
    /\ UNCHANGED <<core_vars, sel_vars, codec_vars, conn_vars, bits_vars, benc_vars>>

\* The threads are closed at any point of a download in which no worker
\* meets a fault, or run_with_torrent is left on an error of its session.
NextShutdown ==
    \/ NextFaultFree
    \/ AppStop
    \/ PMStop
    \/ \E error \in SessionErrors : AppPeerSessionFails(error)

SpecShutdown == Init /\ [][NextShutdown]_vars

\* The download with every fault of the workers, and the session that
\* run_with_torrent runs itself.
NextRun ==
    \/ Next
    \/ \E error \in SessionErrors : AppPeerSessionFails(error)

SpecRun == Init /\ [][NextRun]_vars

\* ------------------------------------------- the selection policy alone
NumSelPieces == 3
SelPieces == 0 .. (NumSelPieces - 1)

\* A scheduler state between two message handlings, every piece remaining:
\* the ready pieces, the availability of each piece, at most one peer with an
\* outstanding assignment, the other pieces orphans.
SelState(allowed, ready, asked) ==
    Recount([allowed |-> allowed, asked |-> asked, ready |-> ready,
             orphans |-> SelPieces \ (ready \cup {asked[q] : q \in DOMAIN asked}),
             count |-> [q \in Peers |-> 0], orders |-> <<>>])

\* An outstanding assignment is for a piece out of ready that its peer
\* advertises; no peer advertises an orphan.
SelStateOK(S) ==
    /\ \A q \in DOMAIN S.asked : S.asked[q] \notin S.ready /\ q \in S.allowed[S.asked[q]]
    /\ \A i \in S.orphans : S.allowed[i] = {}

InitSelect ==
    /\ CoreParked
    /\ UnitParked
    /\ CodecParked
    /\ ConnParked
    /\ \E ready \in SUBSET SelPieces :
       \E asked \in {EmptyMap} \cup {[x \in {q} |-> j] : q \in Peers, j \in SelPieces \ ready} :
       \E allowed \in [SelPieces -> SUBSET Peers] :
            /\ SelStateOK(SelState(allowed, ready, asked))
            /\ sel_state = SelState(allowed, ready, asked)
    /\ sel_peer \in Peers
    /\ sel_result = NoValue

\* The scheduler dispatches to the peer that became eligible.
SelectDispatch ==
    /\ sel_result = NoValue
    /\ sel_state # NoValue
    /\ sel_result' = Dispatch(sel_state, sel_peer)
    /\ UNCHANGED <<core_vars, unit_vars, codec_vars, conn_vars, sel_state, sel_peer>>

NextSelect == SelectDispatch

SpecSelect == InitSelect /\ [][NextSelect]_vars

\* ------------------------------------------------------- the wire codec
MaxPayloadLen == 2

\* PeerMessageId, in declaration order; `id as u8` and PeerMessageId::from_u8
PeerMessageIds == <<"Choke", "Unchoke", "Interested", "NotInterested", "Have",
                    "Bitfield", "Request", "Piece", "Cancel", "Port">>
as_u8(id) == (CHOOSE n \in 1 .. Len(PeerMessageIds) : PeerMessageIds[n] = id) - 1
from_u8(n) ==
    IF n <= 9 THEN [ok |-> TRUE, id |-> PeerMessageIds[n + 1]]
    ELSE [ok |-> FALSE, error |-> "Invalid message id"]

\* PeerMessage
PeerMessage(id, length, payload) == [id |-> id, length |-> length, payload |-> payload]
\* PeerMessage::keep_alive
keep_alive == PeerMessage("Choke", 0, <<>>)

\* u32::to_be_bytes / PeerMessage::u32_to_vec_be with the bytes least
\* significant first.
to_be_bytes_LittleEndian(num) ==
    <<num % 256, (num \div 256) % 256, (num \div 65536) % 256, (num \div 16777216) % 256>>

\* u32::to_be_bytes / PeerMessage::u32_to_vec_be
to_be_bytes(num) ==
    <<(num \div 16777216) % 256, (num \div 65536) % 256, (num \div 256) % 256, num % 256>>

\* u32::from_be_bytes
from_be_bytes(b) == b[1] * 16777216 + b[2] * 65536 + b[3] * 256 + b[4]

\* PeerMessageStream::send_message: the bytes written to the stream.
send_message(message) ==
    to_be_bytes(message.length) \o <<as_u8(message.id)>> \o message.payload

\* `message_length - 1` on u32 where overflow is not checked, on the four
\* bytes of the number: 0 - 1 wraps to 2^32 - 1.
wrapping_sub_1(b) ==
    IF b[4] > 0 THEN <<b[1], b[2], b[3], b[4] - 1>>
    ELSE IF b[3] > 0 THEN <<b[1], b[2], b[3] - 1, 255>>
    ELSE IF b[2] > 0 THEN <<b[1], b[2] - 1, 255, 255>>
    ELSE IF b[1] > 0 THEN <<b[1] - 1, 255, 255, 255>>
    ELSE <<255, 255, 255, 255>>

\* read_exact returns once the stream holds the bytes asked for: the length
\* and the id, then the payload. No stream here holds 2^24 bytes.
HoldsMessage(bytes) ==
    /\ Len(bytes) >= 5
    /\ LET size == wrapping_sub_1(SubSeq(bytes, 1, 4))
       IN  size[1] = 0 /\ Len(bytes) >= 5 + from_be_bytes(size)

\* PeerMessageStream::wait_for_message on a stream that holds the message.
wait_for_message(bytes) ==
    LET message_length == from_be_bytes(SubSeq(bytes, 1, 4))
        message_id == bytes[5]
        payload == SubSeq(bytes, 6, 4 + message_length)
        id == from_u8(message_id)
    IN  [result |-> IF id.ok
                    THEN [ok |-> TRUE, msg |-> PeerMessage(id.id, message_length, payload)]
                    ELSE [ok |-> FALSE, error |-> id.error],
         rest |-> SubSeq(bytes, 5 + message_length, Len(bytes))]

\* The payloads sent: every length up to MaxPayloadLen.
PayloadInputs == {[k \in 1 .. n |-> (k * 127) % 256] : n \in 0 .. MaxPayloadLen}

\* The messages sent: every id with a payload and the matching length, and
\* the keep-alive.
WireMessages ==
    {PeerMessage(PeerMessageIds[n], Len(pl) + 1, pl) :
        n \in 1 .. Len(PeerMessageIds), pl \in PayloadInputs} \cup {keep_alive}

MessagesPerStream == 2

InitCodec ==
    /\ CoreParked
    /\ UnitParked
    /\ SelParked
    /\ ConnParked
    /\ to_send \in [1 .. MessagesPerStream -> WireMessages]
    /\ sent_count = 0
    /\ stream = <<>>
    /\ received = <<>>
    /\ reader = "reading"

\* The writing end sends its next message.
StreamSendMessage ==
    /\ to_send # NoValue
    /\ sent_count < Len(to_send)
    /\ sent_count' = sent_count + 1
    /\ stream' = stream \o send_message(to_send[sent_count + 1])
    /\ UNCHANGED <<core_vars, unit_vars, sel_vars, conn_vars, to_send, received, reader>>

\* The reading end returns from wait_for_message: the bytes it reads are in
\* the stream.
StreamWaitForMessage ==
    /\ reader = "reading"
    /\ HoldsMessage(stream)
    /\ received' = Append(received, wait_for_message(stream).result)
    /\ stream' = wait_for_message(stream).rest
    /\ UNCHANGED <<core_vars, unit_vars, sel_vars, conn_vars, to_send, sent_count, reader>>

\* The reading end reads a length of 0 and an id byte: `message_length - 1`
\* panics where overflow is checked, and elsewhere wraps, and read_exact waits
\* for 2^32 - 1 bytes.
StreamWaitForMessageLengthZero ==
    /\ reader = "reading"
    /\ Len(stream) >= 5
    /\ SubSeq(stream, 1, 4) = <<0, 0, 0, 0>>
    /\ reader' \in {"panicked", "blocked"}
    /\ stream' = SubSeq(stream, 6, Len(stream))
    /\ UNCHANGED <<core_vars, unit_vars, sel_vars, conn_vars, to_send, sent_count, received>>

NextCodec ==
    \/ StreamSendMessage
    \/ StreamWaitForMessage
    \/ StreamWaitForMessageLengthZero

SpecCodec == InitCodec /\ [][NextCodec]_vars

\* ---------------------------------------------------- one peer connection
\* metainfo.info_hash, and another torrent's
InfoHash == "info_hash"
OtherInfoHash == "other_info_hash"
HandshakeResponses == {InfoHash, OtherInfoHash}

Ok(v) == [ok |-> TRUE, value |-> v]
Err(e) == [ok |-> FALSE, error |-> e]

\* PeerMessage::unchoke, interested, request, piece
unchoke == PeerMessage("Unchoke", 1, <<>>)
interested == PeerMessage("Interested", 1, <<>>)
request(index, begin, length) ==
    LET payload == to_be_bytes(index) \o to_be_bytes(begin) \o to_be_bytes(length)
    IN  PeerMessage("Request", Len(payload) + 1, payload)
piece(piece_index, offset, block) ==
    LET payload == to_be_bytes(piece_index) \o to_be_bytes(offset) \o block
    IN  PeerMessage("Piece", Len(payload) + 1, payload)

\* create_handshake_message, by the info_hash it carries
Handshake(info_hash) == [id |-> "Handshake", info_hash |-> info_hash]

\* PeerMessageStream::handshake on a stream that delivers the 68 bytes of the
\* response: the response is read and not looked at.
handshake(info_hash, response_info_hash) == Ok(<<>>)

\* Bitfield::is_empty, the negation of Bitfield::non_empty
is_empty(bf) == Len(bf) = 0

\* utils::valid_block: the payload starts with the index and the offset of the
\* outstanding request.
valid_block(payload, index, begin) ==
    /\ Len(payload) >= 8
    /\ SubSeq(payload, 1, 4) = to_be_bytes(index)
    /\ SubSeq(payload, 5, 8) = to_be_bytes(begin)

\* utils::valid_piece: the assembled piece has the piece length and the digest
\* of the metainfo.
utils_valid_piece(piece_bytes, piece_index) ==
    /\ Len(piece_bytes) = PieceLength
    /\ sha1_of(piece_bytes) = sha1_pieces[piece_index]

\* PeerConnection::wait_for_message on message m: the fields after it, and
\* Err(UnhandledMessage) for the ids it has no arm for.
conn_wait_for_message(m) ==
    [ok |-> m.id \in {"Unchoke", "Bitfield", "Have", "Piece"},
     peer_choking |-> IF m.id = "Unchoke" THEN FALSE ELSE peer_choking,
     bitfield |-> IF m.id = "Bitfield" THEN m.payload ELSE bitfield]

\* piece.extend(block) putting the block in front.
ExtendPiece_Prepends(piece_bytes, block) == block \o piece_bytes

\* piece.extend(block)
ExtendPiece(piece_bytes, block) == piece_bytes \o block

\* request_block's loop body that takes any Piece as the block asked for.
request_block_on_AnyPiece(m, index, begin) ==
    IF ~conn_wait_for_message(m).ok
    THEN [returns |-> TRUE, result |-> Err("Failed while waiting for message")]
    ELSE IF m.id = "Piece"
    THEN [returns |-> TRUE, result |-> Ok(SubSeq(m.payload, 9, Len(m.payload)))]
    ELSE [returns |-> FALSE]

\* request_block's loop body on message m: the block, an error, or another
\* turn of the loop.
request_block_on(m, index, begin) ==
    IF ~conn_wait_for_message(m).ok
    THEN [returns |-> TRUE, result |-> Err("Failed while waiting for message")]
    ELSE IF m.id = "Piece"
    THEN IF valid_block(m.payload, index, begin)
         THEN [returns |-> TRUE, result |-> Ok(SubSeq(m.payload, 9, Len(m.payload)))]
         ELSE [returns |-> TRUE, result |-> Err("Invalid block received")]
    ELSE [returns |-> FALSE]

\* What a peer may put in a block asked for as (index, begin, length): the
\* content, the content less its last byte, with its first byte changed, with
\* one byte more.
BlockInputs(index, begin, length) ==
    LET last == IF begin + length <= PieceLength THEN begin + length ELSE PieceLength
        content == SubSeq(File[index], begin + 1, last)
    IN  {content, SubSeq(content, 1, Len(content) - 1), Corrupted(content), content \o <<1>>}

\* The block sizes request_piece is called with, one of them no divisor of
\* the piece length.
BlockSizes == 1 .. (PieceLength + 1)

\* The messages a peer may send while (index, begin, length) is outstanding.
InboundMessages(index, begin, length) ==
    {PeerMessage("Choke", 1, <<>>), unchoke, interested,
     PeerMessage("NotInterested", 1, <<>>), PeerMessage("Cancel", 13, request(index, begin, length).payload),
     request(index, begin, length), PeerMessage("Port", 3, <<0, 0>>),
     PeerMessage("Have", 5, to_be_bytes(index)),
     PeerMessage("Bitfield", 1, <<>>), PeerMessage("Bitfield", 2, <<ByteOf(Pieces)>>),
     PeerMessage("Piece", 5, to_be_bytes(index))}
    \cup {piece(i, o, b) : i \in {index, (index + 1) % NumPieces},
                           o \in {begin, begin + 1},
                           b \in BlockInputs(index, begin, length)}

\* PeerConnection::new
InitConn ==
    /\ CoreParked
    /\ UnitParked
    /\ SelParked
    /\ CodecParked
    /\ conn_pc = "new"
    /\ peer_choking = TRUE
    /\ bitfield = <<>>
    /\ outbox = <<>>
    /\ handshake_response = NoResponse
    /\ last_received = NoValue
    /\ open_result = NoValue
    /\ piece_result = NoValue
    /\ download = NoValue
    /\ blocks = <<>>

\* open_connection up to wait_until_ready, against a peer that answers the
\* handshake with response_info_hash.
ConnOpenConnection(response_info_hash) ==
    /\ conn_pc = "new"
    /\ handshake_response' = response_info_hash
    /\ IF handshake(InfoHash, response_info_hash).ok
       THEN /\ outbox' = outbox \o <<Handshake(InfoHash), unchoke, interested>>
            /\ conn_pc' = "wait_until_ready"
            /\ open_result' = open_result
       ELSE /\ outbox' = Append(outbox, Handshake(InfoHash))
            /\ conn_pc' = "failed"
            /\ open_result' = Err("PeerHandshakeError")
    /\ UNCHANGED <<core_vars, unit_vars, sel_vars, codec_vars, peer_choking, bitfield, last_received,
                   piece_result, download, blocks>>

\* One turn of wait_until_ready's loop, on message m.
ConnWaitUntilReady(m) ==
    /\ conn_pc = "wait_until_ready"
    /\ last_received' = m
    /\ LET after == conn_wait_for_message(m)
       IN  /\ peer_choking' = after.peer_choking
           /\ bitfield' = after.bitfield
           /\ IF ~after.ok
              THEN conn_pc' = "failed" /\ open_result' = Err("UnhandledMessage")
              ELSE IF after.peer_choking /\ is_empty(after.bitfield)
              THEN conn_pc' = "ready" /\ open_result' = Ok(<<>>)
              ELSE conn_pc' = conn_pc /\ open_result' = open_result
    /\ UNCHANGED <<core_vars, unit_vars, sel_vars, codec_vars, outbox, handshake_response,
                   piece_result, download, blocks>>

\* request_piece(piece_index, block_size) up to its first wait, on a
\* connection just made or just opened.
ConnRequestPiece(piece_index, block_size) ==
    /\ conn_pc \in {"new", "ready"}
    /\ conn_pc' = "request_piece"
    /\ download' = [piece_index |-> piece_index, block_size |-> block_size,
                    counter |-> 0, piece |-> <<>>]
    /\ outbox' = Append(outbox, request(piece_index, 0, block_size))
    /\ UNCHANGED <<core_vars, unit_vars, sel_vars, codec_vars, peer_choking, bitfield, handshake_response,
                   last_received, open_result, piece_result, blocks>>

\* request_piece on message m, up to its next wait or its return.
ConnRequestPieceReceives(m) ==
    /\ conn_pc = "request_piece"
    /\ last_received' = m
    /\ peer_choking' = conn_wait_for_message(m).peer_choking
    /\ bitfield' = conn_wait_for_message(m).bitfield
    /\ LET block == request_block_on(m, download.piece_index, download.counter)
           extended == ExtendPiece(download.piece, block.result.value)
           counter == download.counter + download.block_size
       IN  IF ~block.returns
           THEN UNCHANGED <<conn_pc, download, outbox, piece_result, blocks>>
           ELSE IF ~block.result.ok
           THEN /\ conn_pc' = "returned"
                /\ piece_result' = block.result
                /\ UNCHANGED <<download, outbox, blocks>>
           ELSE /\ download' = [download EXCEPT !.piece = extended, !.counter = counter]
                /\ blocks' = Append(blocks, [begin |-> download.counter,
                                             block |-> block.result.value])
                /\ IF counter >= PieceLength
                   THEN /\ conn_pc' = "returned"
                        /\ piece_result' =
                              IF utils_valid_piece(extended, download.piece_index)
                              THEN Ok(extended) ELSE Err("Invalid piece received")
                        /\ outbox' = outbox
                   ELSE /\ conn_pc' = conn_pc
                        /\ piece_result' = piece_result
                        /\ outbox' = Append(outbox,
                              request(download.piece_index, counter, download.block_size))
    /\ UNCHANGED <<core_vars, unit_vars, sel_vars, codec_vars, handshake_response, open_result>>

NextConn ==
    \/ \E response_info_hash \in HandshakeResponses : ConnOpenConnection(response_info_hash)
    \/ \E m \in InboundMessages(0, 0, 1) : ConnWaitUntilReady(m)
    \/ \E piece_index \in Pieces, block_size \in BlockSizes :
            ConnRequestPiece(piece_index, block_size)
    \/ /\ conn_pc = "request_piece"
       /\ \E m \in InboundMessages(download.piece_index, download.counter,
                                    download.block_size) :
              ConnRequestPieceReceives(m)

SpecConn == InitConn /\ [][NextConn]_vars

\* ------------------------------------------------------ one Bitfield alone
MaxBitfieldLen == 2

\* The bytes a bitfield vector is built from.
BitfieldBytes == {0, 1, 90, 128, 255}
BitfieldVectors ==
    UNION {[1 .. n -> BitfieldBytes] : n \in 0 .. MaxBitfieldLen}
\* The piece indexes asked about, some of them beyond the vector.
BitfieldIndexes == 0 .. (8 * MaxBitfieldLen + 1)

\* b | bit, for a byte b and a single-bit byte bit.
BitOr(b, bit) == IF (b \div bit) % 2 = 1 THEN b ELSE b + bit

\* Bitfield::set_piece: nothing beyond the end of the vector, else
\* self.0[byte_index] |= 1 << (7 - offset).
set_piece(vec, index) ==
    LET byte_index == index \div 8
        offset == index % 8
    IN  IF byte_index >= Len(vec)
        THEN vec
        ELSE [vec EXCEPT ![byte_index + 1] = BitOr(@, Pow2(7 - offset))]

InitBits ==
    /\ CoreParked
    /\ SelParked
    /\ CodecParked
    /\ ConnParked
    /\ AppRunning
    /\ BencParked
    /\ bits \in BitfieldVectors
    /\ bits_call = NoValue

\* A caller asks whether the bitfield has a piece.
BitsHasPiece(index) ==
    /\ bits_call' = [op |-> "has_piece", index |-> index, result |-> has_piece(bits, index)]
    /\ UNCHANGED <<core_vars, sel_vars, codec_vars, conn_vars, bits, app_state, benc_vars>>

\* A caller sets the bit of a piece, as the first call on the bitfield.
BitsSetPiece(index) ==
    /\ bits_call = NoValue
    /\ bits' = set_piece(bits, index)
    /\ bits_call' = [op |-> "set_piece", index |-> index]
    /\ UNCHANGED <<core_vars, sel_vars, codec_vars, conn_vars, app_state, benc_vars>>

NextBits ==
    \/ \E index \in BitfieldIndexes : BitsHasPiece(index)
    \/ \E index \in BitfieldIndexes : BitsSetPiece(index)

SpecBits == InitBits /\ [][NextBits]_vars

\* ------------------------------------------------------- bencode encoder
MaxDictEntries == 2

\* BencodeDecodedValue; a Dictionary holds its HashMap as the entries in the
\* order in which the map iterates.
Integer(integer) == [kind |-> "Integer", integer |-> integer]
String(string) == [kind |-> "String", string |-> string]
List(list) == [kind |-> "List", list |-> list]
Dictionary(items) == [kind |-> "Dictionary", items |-> items]
End == [kind |-> "End"]

\* The tokens b'i', b'l', b'd', b'e', b':', and b'-', b'0'.
INTEGER_START_TOKEN == 105
LIST_START_TOKEN == 108
DICTIONARY_START_TOKEN == 100
END_TOKEN == 101
STRING_START_TOKEN == 58
MINUS_SIGN == 45
DIGIT_ZERO == 48

\* to_string().as_bytes() of an integer
RECURSIVE Digits(_)
Digits(n) ==
    IF n < 10 THEN <<DIGIT_ZERO + n>> ELSE Append(Digits(n \div 10), DIGIT_ZERO + (n % 10))
to_string(n) == IF n < 0 THEN <<MINUS_SIGN>> \o Digits(0 - n) ELSE Digits(n)

\* Ord of Vec<u8>: byte by byte, a proper prefix first.
RECURSIVE LexLess(_, _)
LexLess(a, b) ==
    IF a = <<>> THEN b # <<>>
    ELSE IF b = <<>> THEN FALSE
    ELSE IF a[1] # b[1] THEN a[1] < b[1]
    ELSE LexLess(Tail(a), Tail(b))

\* items.sort_by_key left out: the entries stay in the map's iteration order.
sort_by_key_IterationOrder(items) == items

\* items.sort_by_key(|&(key, _)| key): ascending keys (the keys of a map are
\* distinct).
RECURSIVE sort_by_key(_)
sort_by_key(items) ==
    IF items = <<>> THEN <<>>
    ELSE LET sorted == sort_by_key(Tail(items))
             item == Head(items)
             before == SelectSeq(sorted, LAMBDA other : LexLess(other.key, item.key))
             after == SelectSeq(sorted, LAMBDA other : ~LexLess(other.key, item.key))
         IN  before \o <<item>> \o after

encode_integer(integer) == <<INTEGER_START_TOKEN>> \o to_string(integer) \o <<END_TOKEN>>
encode_string(string) == to_string(Len(string)) \o <<STRING_START_TOKEN>> \o string

\* encode, encode_list and encode_dictionary
RECURSIVE encode(_)
RECURSIVE encode_each(_)
RECURSIVE encode_entries(_)
encode_each(list) ==
    IF list = <<>> THEN <<>> ELSE encode(Head(list)) \o encode_each(Tail(list))
encode_entries(items) ==
    IF items = <<>> THEN <<>>
    ELSE encode(String(Head(items).key)) \o encode(Head(items).value)
            \o encode_entries(Tail(items))
encode_list(list) == <<LIST_START_TOKEN>> \o encode_each(list) \o <<END_TOKEN>>
encode_dictionary(dictionary) ==
    <<DICTIONARY_START_TOKEN>> \o encode_entries(sort_by_key(dictionary)) \o <<END_TOKEN>>
encode(value) ==
    CASE value.kind = "Integer" -> encode_integer(value.integer)
      [] value.kind = "String" -> encode_string(value.string)
      [] value.kind = "List" -> encode_list(value.list)
      [] value.kind = "Dictionary" -> encode_dictionary(value.items)
      [] value.kind = "End" -> <<>>

\* The keys and the values the dictionaries are built from.
BencKeys == {<<97>>, <<97, 97>>, <<98>>}
BencLeaves == {Integer(0 - 12), String(<<98, 97>>), List(<<Integer(0)>>)}

\* The sequences of at most n distinct keys.
KeySeqs(n) ==
    {ks \in UNION {[1 .. k -> BencKeys] : k \in 0 .. n} :
        \A a, b \in 1 .. Len(ks) : a # b => ks[a] # ks[b]}

\* The dictionaries of at most n entries with values out of the given set,
\* in every iteration order.
DictionariesOver(values, n) ==
    UNION {{Dictionary([k \in 1 .. Len(ks) |-> [key |-> ks[k], value |-> vs[k]]]) :
                vs \in [1 .. Len(ks) -> values]} : ks \in KeySeqs(n)}
BencValues(n) == DictionariesOver(BencLeaves \cup DictionariesOver({Integer(7)}, n), n)

\* The bencoding the metainfo format prescribes: integers i<decimal>e,
\* strings <length>:<bytes>, lists l...e, dictionaries d...e with the keys as
\* strings in ascending order.
RECURSIVE Flatten(_)
Flatten(seqs) == IF seqs = <<>> THEN <<>> ELSE Head(seqs) \o Flatten(Tail(seqs))
RECURSIVE Canonical(_)
RECURSIVE CanonicalEach(_)
CanonicalEach(list) ==
    IF list = <<>> THEN <<>> ELSE Canonical(Head(list)) \o CanonicalEach(Tail(list))
Canonical(value) ==
    CASE value.kind = "Integer" ->
            <<INTEGER_START_TOKEN>> \o to_string(value.integer) \o <<END_TOKEN>>
      [] value.kind = "String" ->
            to_string(Len(value.string)) \o <<STRING_START_TOKEN>> \o value.string
      [] value.kind = "List" ->
            <<LIST_START_TOKEN>> \o CanonicalEach(value.list) \o <<END_TOKEN>>
      [] value.kind = "Dictionary" ->
            LET n == Len(value.items)
                ascending == CHOOSE order \in [1 .. n -> 1 .. n] :
                    \A k \in 1 .. (n - 1) :
                        LexLess(value.items[order[k]].key, value.items[order[k + 1]].key)
                entries == [k \in 1 .. n |->
                    Canonical(String(value.items[ascending[k]].key))
                        \o Canonical(value.items[ascending[k]].value)]
            IN  <<DICTIONARY_START_TOKEN>> \o Flatten(entries) \o <<END_TOKEN>>

\* The parses of a byte string: the values it is the bencoding of, with the
\* maps in any iteration order.
parse(b, n) == {value \in BencValues(n) : Canonical(value) = b}

InitBenc ==
    /\ CoreParked
    /\ SelParked
    /\ CodecParked
    /\ ConnParked
    /\ BitsParked
    /\ AppRunning
    /\ benc_value \in BencValues(MaxDictEntries)
    /\ benc_bytes = <<>>
    /\ benc_again = <<>>

\* encode(&value)
BencEncode ==
    /\ benc_bytes = <<>>
    /\ benc_bytes' = encode(benc_value)
    /\ UNCHANGED <<core_vars, sel_vars, codec_vars, conn_vars, bits_vars, app_state,
                   benc_value, benc_again>>

\* encode(&parse(bytes)) on the bytes encode produced.
BencParseAndEncode ==
    /\ benc_bytes # <<>>
    /\ benc_again = <<>>
    /\ \E parsed \in parse(benc_bytes, MaxDictEntries) : benc_again' = encode(parsed)
    /\ UNCHANGED <<core_vars, sel_vars, codec_vars, conn_vars, bits_vars, app_state,
                   benc_value, benc_bytes>>

NextBenc ==
    \/ BencEncode
    \/ BencParseAndEncode

SpecBenc == InitBenc /\ [][NextBenc]_vars

\* ----------------------------------------------------------------- types
TypeOK ==
    /\ DOMAIN allowed_peers_to_download_piece \subseteq Pieces
    /\ \A i \in DOMAIN allowed_peers_to_download_piece :
         allowed_peers_to_download_piece[i] \subseteq Peers
    /\ DOMAIN piece_asked_to \subseteq Peers
    /\ pieces_without_peer \subseteq Pieces
    /\ ready_to_download_pieces \subseteq Pieces
    /\ \A p \in Peers :
         session[p] \in {"connecting", "open", "downloading", "failed", "closed"}
    /\ saver_state \in {"listening", "panicked", "stopped"}
    /\ pm_state \in {"running", "done", "failed", "stopped"}
    /\ app_state \in {"running", "stopping", "returned_err", "panicked"}
    /\ cm_state \in {"running", "stopped"}
    /\ established_connections \in 0 .. NumPeers

\* ----------------------------------------------------- views for the claims
ReadySet == ready_to_download_pieces
OrphanSet == pieces_without_peer
AssignedSet == {piece_asked_to[p] : p \in DOMAIN piece_asked_to}
CompleteSet == {i \in Pieces : Complete(i)}
KnownPeers == DOMAIN peer_pieces_to_download_count

SeqCount(q, T(_)) == Cardinality({k \in 1 .. Len(q) : T(q[k])})
IsOrderFor(p, m) == m.type = "DownloadPiece" /\ m.peer = p
IsOutcomeFor(p, m) ==
    m.type \in {"SuccessfulDownload", "FailedDownload", "FailedConnection"} /\ m.peer = p

\* Orders of a peer not yet answered, and answers not yet handled.
OrdersInFlight(p) ==
    LET T(m) == IsOrderFor(p, m)
    IN  SeqCount(cm_inbox, T) + (IF session[p] = "downloading" THEN 1 ELSE 0)
OutcomesPending(p) ==
    LET T(m) == IsOutcomeFor(p, m) IN SeqCount(pm_inbox, T)

\* The orders a step adds to the connection manager's channel.
NewOrders ==
    IF Len(cm_inbox') > Len(cm_inbox)
    THEN {cm_inbox'[k] : k \in {n \in (Len(cm_inbox) + 1) .. Len(cm_inbox') :
                                    cm_inbox'[n].type = "DownloadPiece"}}
    ELSE {}

\* ------------------------------------------------------------------ claims
\* C1: a piece index is Assigned to at most one peer, and every DownloadPiece
\* order in flight is for a piece Assigned to the order's peer and to no other.
C1_OnePeerPerPiece ==
    /\ \A i \in Pieces : Cardinality({p \in Peers : AssignedTo(i, p)}) <= 1
    /\ \A k \in 1 .. Len(cm_inbox) :
         cm_inbox[k].type = "DownloadPiece" =>
            \A p \in Peers : AssignedTo(cm_inbox[k].piece, p) <=> p = cm_inbox[k].peer
    /\ \A p \in Peers : session[p] = "downloading" =>
         \A q \in Peers : AssignedTo(session_piece[p], q) <=> q = p

\* C1 witness: a piece is Assigned to one peer while another known, idle peer
\* advertises it too.
C1_Witness ==
    \E i \in Pieces, p, q \in Peers :
        /\ p # q
        /\ AssignedTo(i, p)
        /\ q \in availability(i)
        /\ Eligible(SchedState, q)

\* C2: a peer has at most one order outstanding: an order not yet run, a
\* running download and an outcome not yet handled never add up to two.
C2_OneOrderPerPeer ==
    \A p \in Peers :
        /\ OrdersInFlight(p) + OutcomesPending(p) <= 1
        /\ OrdersInFlight(p) = 1 => p \in DOMAIN piece_asked_to

\* C2 witness: a peer with an order outstanding advertises another ready piece
\* that the scheduler holds back.
C2_Witness ==
    \E p \in Peers :
        /\ OrdersInFlight(p) = 1
        /\ Candidates(SchedState, p) # {}

\* C3: ready, orphans, Assigned and Complete are pairwise disjoint and their
\* union is exactly the piece indices [0, N).
C3_Partition ==
    /\ ReadySet \cup OrphanSet \cup AssignedSet \cup CompleteSet = Pieces
    /\ ReadySet \cap OrphanSet = {}
    /\ ReadySet \cap AssignedSet = {}
    /\ ReadySet \cap CompleteSet = {}
    /\ OrphanSet \cap AssignedSet = {}
    /\ OrphanSet \cap CompleteSet = {}
    /\ AssignedSet \cap CompleteSet = {}

\* C3 witness: an orphan and an Assigned piece at once, after the scheduler has
\* purged a failed peer.
C3_Witness ==
    /\ OrphanSet # {}
    /\ AssignedSet # {}
    /\ \E p \in Peers : session[p] = "failed" /\ p \notin KnownPeers

\* C4 (as claimed): ready is exactly the Missing pieces some peer advertises,
\* orphans exactly the Missing pieces no peer advertises, in every state from
\* the one new_piece_manager builds.
C4_ReadyOrphansExact ==
    /\ ReadySet = {i \in Pieces : Missing(i) /\ availability(i) # {}}
    /\ OrphanSet = {i \in Pieces : Missing(i) /\ availability(i) = {}}

\* C5 (as claimed): a piece Assigned to p means p's session is open (not
\* failed, not closed) and p advertises the piece.
C5_AssignedPeerSessionOpen ==
    \A i \in Pieces, p \in Peers :
        AssignedTo(i, p) => /\ session[p] \in {"open", "downloading"}
                            /\ p \in availability(i)

\* C5 (amended): a piece Assigned to p means the scheduler still knows p (it has
\* handled p's PeerPieces and no FailedConnection(p)) and p advertises the
\* piece; a peer advertising nothing or reported failed holds no assignment.
C5_AssignedPeerKnown ==
    \A i \in Pieces, p \in Peers :
        AssignedTo(i, p) => /\ p \in KnownPeers
                            /\ p \in availability(i)

\* C5 witness: a piece is still Assigned to a peer whose session has already
\* failed, the FailedConnection not yet handled.
C5_Witness ==
    \E i \in Pieces, p \in Peers :
        /\ AssignedTo(i, p)
        /\ session[p] = "failed"
        /\ \E k \in 1 .. Len(pm_inbox) : pm_inbox[k] = FailedConnection(p)

\* C6: a Complete piece stays Complete in every later state and no new
\* DownloadPiece order is sent for it.
C6_CompleteIsStable ==
    [][/\ \A i \in Pieces : Complete(i) => Complete(i)'
       /\ \A m \in NewOrders : ~Complete(m.piece) /\ ~Complete(m.piece)']_vars

\* C6 witness: the scheduler is about to handle a Have for a piece that a
\* download completed.
C6_Witness ==
    /\ Complete(1)
    /\ PMReceives("Have")
    /\ Head(pm_inbox).piece = 1

\* C7 (as claimed): a piece the scheduler holds Complete has been written by
\* the verifier with bytes whose digest is that of the piece.
C7_CompleteIsOnDisk ==
    \A i \in Pieces :
        Complete(i) => /\ disk[i] # NoBytes
                       /\ sha1_of(disk[i]) = sha1_pieces[i]

\* C8: every piece region that has been written holds bytes whose digest is
\* the digest of that piece.
C8_WrittenIsValid ==
    \A i \in Pieces : disk[i] # NoBytes => sha1_of(disk[i]) = sha1_pieces[i]

\* C8 witness: the verifier has written a piece whose bytes are not the
\* original content but share its digest.
C8_Witness ==
    \E i \in Pieces :
        /\ disk[i] # NoBytes
        /\ disk[i] # File[i]

\* The verifier handles the head of its channel.
SaverHandles(valid) ==
    /\ saver_state = "listening"
    /\ saver_inbox # <<>>
    /\ Head(saver_inbox).type = "ValidateAndSavePiece"
    /\ valid_piece(Head(saver_inbox).bytes, Head(saver_inbox).piece) = valid
    /\ Len(saver_inbox') < Len(saver_inbox)
    /\ pm_inbox' = pm_inbox \/ Len(pm_inbox') > Len(pm_inbox)
    /\ session' = session

\* C9 (as claimed): handling bytes whose digest differs from H[i], the verifier
\* writes nothing and sends FailedDownload(i, p) to the scheduler.
C9_MismatchEmitsFailedDownload ==
    [][SaverHandles(FALSE) =>
         /\ disk' = disk
         /\ \E p \in Peers :
              pm_inbox' = Append(pm_inbox, FailedDownload(Head(saver_inbox).piece, p))]_vars

\* C10 (as claimed): handling bytes whose digest equals H[i], the verifier
\* writes them and then sends one SuccessfulDownload(i, p) to the scheduler.
C10_MatchEmitsSuccessfulDownload ==
    [][(SaverHandles(TRUE) /\ disk' # disk) =>
         \E p \in Peers :
              pm_inbox' = Append(pm_inbox, SuccessfulDownload(Head(saver_inbox).piece, p))]_vars

\* C11: a dispatched piece is a ready piece the peer advertises, with the
\* smallest number of advertising peers among those, and among the pieces of
\* that count the smallest index.
C11_RarestFirstSmallestIndex ==
    sel_result # NoValue =>
        \A k \in 1 .. Len(sel_result.orders) :
            LET c == sel_result.orders[k].piece
                fits == {d \in sel_state.ready : sel_peer \in sel_state.allowed[d]}
                n(d) == Cardinality(sel_state.allowed[d])
            IN  /\ sel_result.orders[k].peer = sel_peer
                /\ c \in fits
                /\ \A d \in fits : n(c) <= n(d) /\ (n(c) = n(d) => c <= d)

\* C11 witness: the dispatched piece is rarer than a ready piece of smaller
\* index that the peer advertises too.
C11_Witness ==
    /\ sel_result # NoValue
    /\ Len(sel_result.orders) = 1
    /\ \E d \in sel_state.ready :
         /\ d < sel_result.orders[1].piece
         /\ sel_peer \in sel_state.allowed[d]
         /\ Cardinality(sel_state.allowed[d]) >
                Cardinality(sel_state.allowed[sel_result.orders[1].piece])

\* The scheduler handles the message at the head of its inbox in this step.
PMHandles(type) == PMReceives(type) /\ pm_inbox' = Tail(pm_inbox)

\* The pieces some peer holds in scheduler state S.
AskedPieces(S) == {S.asked[q] : q \in DOMAIN S.asked}

\* C15: when the scheduler handles FailedConnection(p), p leaves every
\* availability set and loses its assignment; a piece that was Assigned to p
\* is reverted to Missing, in ready if another peer advertises it and in
\* orphans otherwise, any other peer that advertises it may then be given it,
\* and once the handler has reassigned the idle peers the piece is in ready,
\* in orphans or ordered from another peer that advertises it.
C15_FailedConnectionReverts ==
    [][PMHandles("FailedConnection") =>
        LET p == Head(pm_inbox).peer
            was == {i \in Pieces : AssignedTo(i, p)}
            R == RevertFailedConnection(SchedState, p)
        IN  /\ \A i \in DOMAIN R.allowed : p \notin R.allowed[i]
            /\ p \notin DOMAIN R.asked /\ p \notin DOMAIN R.count
            /\ \A i \in was :
                 /\ i \in DOMAIN R.allowed /\ i \notin AskedPieces(R)
                 /\ R.allowed[i] # {} => i \in R.ready /\ i \notin R.orphans
                 /\ R.allowed[i] = {} => i \in R.orphans /\ i \notin R.ready
                 /\ \A q \in R.allowed[i] : i \in Candidates(R, q)
            /\ \A i \in DOMAIN allowed_peers_to_download_piece' :
                 p \notin allowed_peers_to_download_piece'[i]
            /\ p \notin DOMAIN piece_asked_to'
            /\ \A i \in was :
                 \/ i \in ready_to_download_pieces' /\ allowed_peers_to_download_piece'[i] # {}
                 \/ i \in pieces_without_peer' /\ allowed_peers_to_download_piece'[i] = {}
                 \/ \E q \in Peers \ {p} :
                      /\ q \in allowed_peers_to_download_piece'[i]
                      /\ q \in DOMAIN piece_asked_to' /\ piece_asked_to'[q] = i
                      /\ \E k \in 1 .. Len(cm_inbox') : cm_inbox'[k] = DownloadPiece(q, i)
    ]_vars

\* C15 witness: peer p dropped while it held piece i, and i is now held by
\* another peer.
C15_Witness ==
    \E f \in reverted :
        /\ f.type = "FailedConnection"
        /\ \E q \in Peers \ {f.peer} : AssignedTo(f.piece, q)
        /\ f.peer \notin DOMAIN peer_pieces_to_download_count

\* What FailedDownload(i, p) does to piece i, before the idle peers are
\* reassigned and after.
FailedDownloadReverts ==
    PMHandles("FailedDownload") =>
        LET p == Head(pm_inbox).peer
            i == Head(pm_inbox).piece
            R == RevertFailedDownload(SchedState, i, p)
        IN  /\ i \in DOMAIN R.allowed /\ i \notin AskedPieces(R)
            /\ p \notin R.allowed[i]
            /\ R.allowed[i] = {} => i \in R.orphans /\ i \notin R.ready
            /\ R.allowed[i] # {} => i \in R.ready /\ i \notin R.orphans
            /\ p \notin allowed_peers_to_download_piece'[i]
            /\ ~(p \in DOMAIN piece_asked_to' /\ piece_asked_to'[p] = i)
            /\ \/ i \in ready_to_download_pieces' /\ allowed_peers_to_download_piece'[i] # {}
               \/ i \in pieces_without_peer' /\ allowed_peers_to_download_piece'[i] = {}
               \/ \E q \in Peers \ {p} :
                    /\ q \in allowed_peers_to_download_piece'[i]
                    /\ q \in DOMAIN piece_asked_to' /\ piece_asked_to'[q] = i

\* C16 as stated: when the scheduler handles FailedDownload(i, p), piece i is
\* Missing, p is out of availability[i], i is in orphans if no other peer
\* advertises it and in ready otherwise, and from then on i is never Assigned
\* to p.
C16_NeverAssignedAgain ==
    [][/\ FailedDownloadReverts
       /\ \A f \in reverted' :
            f.type = "FailedDownload" =>
                ~(f.peer \in DOMAIN piece_asked_to' /\ piece_asked_to'[f.peer] = f.piece)
    ]_vars

\* C16 amended: the same, but p stays out of availability[i] and is not
\* Assigned i only until the scheduler handles a Have(p, i).
C16_AssignedAgainOnlyAfterHave ==
    [][/\ FailedDownloadReverts
       /\ \A f \in reverted :
            (/\ f.type = "FailedDownload"
             /\ f.piece \in DOMAIN allowed_peers_to_download_piece
             /\ f.peer \notin allowed_peers_to_download_piece[f.piece]
             /\ ~(PMHandles("Have") /\ Head(pm_inbox) = Have(f.peer, f.piece)))
            => (f.piece \in DOMAIN allowed_peers_to_download_piece' =>
                  /\ f.peer \notin allowed_peers_to_download_piece'[f.piece]
                  /\ ~(f.peer \in DOMAIN piece_asked_to'
                         /\ piece_asked_to'[f.peer] = f.piece))
    ]_vars

\* C16 witness: FailedDownload(i, p) was handled, p is still known and out of
\* availability[i], and i is held by another peer.
C16_Witness ==
    \E f \in reverted :
        /\ f.type = "FailedDownload"
        /\ f.peer \in DOMAIN peer_pieces_to_download_count
        /\ f.piece \in DOMAIN allowed_peers_to_download_piece
        /\ f.peer \notin allowed_peers_to_download_piece[f.piece]
        /\ \E q \in Peers \ {f.peer} : AssignedTo(f.piece, q)

\* The first message of the stream has been sent and nothing else.
FirstSent == to_send # NoValue /\ sent_count = 1 /\ received = <<>> /\ reader = "reading"

\* The reading end is done with the first message and the second is sent.
FirstReceived ==
    /\ to_send # NoValue /\ sent_count = MessagesPerStream
    /\ (Len(received) = 1 \/ reader # "reading")

\* C20: for every wire message m, ids 0..9 with any payload and the keep-alive,
\* encoding m emits the frame of m (four bytes [0,0,0,0] and no id byte for the
\* keep-alive), decoding those bytes yields m, and what is left in the stream
\* is exactly the bytes of the following message.
C20_CodecRoundTrip ==
    /\ FirstSent =>
          (to_send[1] = keep_alive => stream = <<0, 0, 0, 0>>)
    /\ FirstReceived =>
          /\ reader = "reading"
          /\ received = <<[ok |-> TRUE, msg |-> to_send[1]]>>
          /\ stream = send_message(to_send[2])

\* What the connection has sent of the given ids.
Sent(ids) == {k \in 1 .. Len(outbox) : outbox[k].id \in ids}

\* C17: when the peer's handshake response carries another info_hash,
\* open_connection fails with a handshake error and no Unchoke, Interested or
\* Request is sent to the peer.
C17_MismatchFailsOpen ==
    (handshake_response # NoResponse /\ handshake_response # InfoHash) =>
        /\ open_result = Err("PeerHandshakeError")
        /\ Sent({"Unchoke", "Interested", "Request"}) = {}

\* The first 8 bytes of a Piece payload are the index and the offset asked for.
LeadingBytesMatch(payload, index, begin) ==
    SubSeq(payload, 1, IF Len(payload) < 8 THEN Len(payload) ELSE 8)
        = to_be_bytes(index) \o to_be_bytes(begin)

\* C18: while the request (index, offset) is outstanding, a Piece whose leading
\* 8 bytes are not (index, offset) makes request_piece return an error, with
\* nothing appended to the piece and no Request sent after it.
C18_InvalidBlockFails ==
    [][(/\ conn_pc = "request_piece"
        /\ last_received'.id = "Piece"
        /\ ~LeadingBytesMatch(last_received'.payload, download.piece_index, download.counter))
       => /\ conn_pc' = "returned"
          /\ ~piece_result'.ok
          /\ download'.piece = download.piece
          /\ blocks' = blocks
          /\ outbox' = outbox
    ]_vars

\* C18 witness: request_piece took one block and then returned the error of
\* a Piece that was not the block asked for.
C18_Witness ==
    /\ conn_pc = "returned"
    /\ piece_result = Err("Invalid block received")
    /\ last_received.id = "Piece"
    /\ Len(blocks) = 1
    /\ download.piece = blocks[1].block
    /\ download.piece # <<>>

RECURSIVE ConcatBlocks(_)
ConcatBlocks(bs) == IF bs = <<>> THEN <<>> ELSE Head(bs).block \o ConcatBlocks(Tail(bs))

\* C19: when every Request is answered by the Piece of its index and offset,
\* request_piece asks for the offsets in ascending order, returns the
\* received blocks concatenated in that order, and returns Ok only if they
\* make exactly piece_length bytes: otherwise the error is the invalid
\* piece's.
C19_PieceIsBlocksInOrder ==
    (conn_pc = "returned" /\ piece_result # Err("Invalid block received")
                         /\ piece_result # Err("Failed while waiting for message")) =>
        /\ \A k \in 1 .. Len(blocks) : blocks[k].begin = (k - 1) * download.block_size
        /\ Cardinality(Sent({"Request"})) = Len(blocks)
        /\ \A k \in 1 .. Len(blocks) :
             \E n \in Sent({"Request"}) :
                 /\ outbox[n] = request(download.piece_index, blocks[k].begin,
                                        download.block_size)
                 /\ Cardinality({j \in Sent({"Request"}) : j < n}) = k - 1
        /\ piece_result.ok =>
             /\ piece_result.value = ConcatBlocks(blocks)
             /\ Len(piece_result.value) = PieceLength
        /\ Len(ConcatBlocks(blocks)) # PieceLength =>
             piece_result = Err("Invalid piece received")

\* C19 witness: request_piece returned a piece made of two different blocks.
C19_Witness ==
    /\ conn_pc = "returned"
    /\ piece_result # NoValue /\ piece_result.ok
    /\ Len(blocks) >= 2
    /\ blocks[1].block # blocks[2].block

AllComplete == \A i \in Pieces : Complete(i)

\* A peer has sent a bitfield with the bit of every piece set.
FullPeerAnnounced ==
    \E k \in 1 .. Len(pm_inbox) :
        /\ pm_inbox[k].type = "PeerPieces"
        /\ pm_inbox[k].bitfield = <<ByteOf(Pieces)>>

\* A session reports a successful download only for a piece that is not
\* Complete and has no successful download waiting to be handled.
NoSecondDownload ==
    \A i \in Pieces, p \in Peers :
        pm_inbox' = Append(pm_inbox, SuccessfulDownload(i, p)) =>
            /\ ~Complete(i)
            /\ AssignedTo(i, p)
            /\ \A k \in 1 .. Len(pm_inbox) :
                 ~(pm_inbox[k].type = "SuccessfulDownload" /\ pm_inbox[k].piece = i)

AllStopped ==
    /\ cm_state = "stopped"
    /\ saver_state = "stopped"
    /\ \A p \in Peers : session[p] \in {"closed", "failed"}

\* C13: the scheduler emits AllDone only when every piece is Complete, and
\* once it has emitted AllDone each worker receives its stop signal: none of
\* them has died, so the verifier is there to receive StopSaving.
C13_AllDoneStopsEveryWorker ==
    /\ pm_state = "done" => AllComplete
    /\ pm_state = "done" => saver_state # "panicked"

\* Nothing is left for the scheduler to handle and no peer advertises a piece.
NoPeerHasAPiece ==
    /\ connections_latched
    /\ pm_inbox = <<>>
    /\ KnownPeers # {}
    /\ \A p \in Peers : session[p] \notin {"connecting", "downloading"}
    /\ ~AllComplete
    /\ \A i \in Pieces : availability(i) = {}

\* C14: the scheduler has reported a fatal stall exactly when pieces remain,
\* all of them are orphans, no session is downloading, the connection latch
\* is set and the tracker is not asked again; in particular, when the peers
\* that connected advertise no piece, nothing is assigned and after the latch
\* the download has terminated as failed.
C14_EmptyBitfieldsStall ==
    /\ pm_state = "failed" <=> Stalled(SchedState, connections_latched)
    /\ NoPeerHasAPiece => (pm_state = "failed" /\ piece_asked_to = EmptyMap)

\* The bits of a byte from the high end, by repeated halving.
RECURSIVE BinaryDigits(_, _)
BinaryDigits(b, n) == IF n = 0 THEN <<>> ELSE Append(BinaryDigits(b \div 2, n - 1), b % 2)
\* The bits of a byte vector, the high bit of the first byte first.
RECURSIVE BitString(_)
BitString(v) == IF v = <<>> THEN <<>> ELSE BinaryDigits(Head(v), 8) \o BitString(Tail(v))

\* C21: has(i) is true exactly when i < 8 * len(v) and bit (7 - i mod 8) of
\* v[i div 8] is 1, that is when the i-th bit of v, counted from the high bit
\* of the first byte, is 1; beyond the vector (and for the empty vector) it
\* is false.
C21_HasPieceIsBitMsbFirst ==
    (bits_call # NoValue /\ bits_call.op = "has_piece") =>
        bits_call.result =
            (/\ bits_call.index < 8 * Len(bits)
             /\ BitString(bits)[bits_call.index + 1] = 1)

\* C21 witness: has_piece answered true in the second byte, false for a
\* clear bit, and false beyond the vector.
C21_Witness ==
    /\ bits = <<90, 1>>
    /\ bits_call # NoValue
    /\ bits_call.op = "has_piece"
    /\ bits_call.index = 15
    /\ bits_call.result

\* C30: after Have(p, i) for a piece index i < N is applied to p's bitfield
\* as setting bit i, has(i) is true for p, whatever the bitfield was before,
\* the empty one and one shorter than i / 8 + 1 bytes included.
C30_HaveSetsTheBit ==
    (bits_call # NoValue /\ bits_call.op = "set_piece" /\ bits_call.index \in Pieces) =>
        has_piece(bits, bits_call.index)

Unchoked == peer_choking = FALSE
HasBitfield == ~is_empty(bitfield)

\* C26: open() returns success at, and not before, the first point at which
\* the peer has sent both an Unchoke and a non-empty Bitfield: a session that
\* is reported ready is unchoked and has a bitfield, and a session that has
\* both is not left waiting for a further message.
C26_ReadyWhenUnchokedWithBitfield ==
    /\ (conn_pc = "ready" /\ open_result = Ok(<<>>)) => (Unchoked /\ HasBitfield)
    /\ conn_pc = "wait_until_ready" => ~(Unchoked /\ HasBitfield)

\* The Requests the session has sent, in order, as (index, begin, length).
IsRequest(m) == m.id = "Request"
RequestsSent ==
    LET sent == SelectSeq(outbox, IsRequest)
    IN  [k \in 1 .. Len(sent) |->
            [index |-> from_be_bytes(SubSeq(sent[k].payload, 1, 4)),
             begin |-> from_be_bytes(SubSeq(sent[k].payload, 5, 8)),
             length |-> from_be_bytes(SubSeq(sent[k].payload, 9, 12))]]

\* The length of the block at offset begin of a piece cut into blocks of
\* block_size: the last block is piece_length mod block_size when nonzero.
BlockLength(begin, block_size) ==
    IF begin + block_size >= PieceLength /\ PieceLength % block_size # 0
    THEN PieceLength % block_size
    ELSE block_size

\* C27: the session sends Requests at offsets 0, B, 2B, ... in ascending
\* order, the next one only after the Piece matching the previous one has
\* arrived; every Request has length B except the last, whose length is
\* piece_length mod B when that is nonzero, so no Request reaches beyond the
\* end of the piece.
C27_RequestsCoverThePiece ==
    download # NoValue =>
        /\ Len(RequestsSent) <= Len(blocks) + 1
        /\ \A k \in 1 .. Len(RequestsSent) :
             /\ RequestsSent[k].index = download.piece_index
             /\ RequestsSent[k].begin = (k - 1) * download.block_size
             /\ RequestsSent[k].length =
                    BlockLength(RequestsSent[k].begin, download.block_size)
             /\ RequestsSent[k].begin + RequestsSent[k].length <= PieceLength

\* The kinds of message a session has nothing to do with while a block is
\* outstanding.
IgnoredIds == {"Interested", "NotInterested", "Request", "Cancel", "Port"}

\* C28: while a block request is outstanding, a message that is not a Piece
\* does not abort the download: after an Unchoke, a Have, a Bitfield or a
\* message of a kind to be ignored, the session is still waiting for the
\* Piece of the same request and has sent nothing.
C28_NonPieceDoesNotAbort ==
    [][conn_pc = "request_piece" =>
       \A m \in InboundMessages(download.piece_index, download.counter,
                                 download.block_size) :
          (ConnRequestPieceReceives(m)
              /\ m.id \in {"Unchoke", "Have", "Bitfield"} \cup IgnoredIds) =>
                 /\ conn_pc' = "request_piece"
                 /\ download' = download
                 /\ outbox' = outbox
                 /\ piece_result' = piece_result]_vars

\* C29: when a Choke arrives while a block request is outstanding, the
\* session records peer_choking = true and gives up the request with a
\* failed download.
C29_ChokeFailsTheDownload ==
    [][conn_pc = "request_piece" =>
       \A m \in InboundMessages(download.piece_index, download.counter,
                                 download.block_size) :
          (ConnRequestPieceReceives(m) /\ m.id = "Choke") =>
                 /\ peer_choking' = TRUE
                 /\ conn_pc' = "returned"
                 /\ ~piece_result'.ok]_vars

IsPeerPiecesOf(p, m) == m.type = "PeerPieces" /\ m.peer = p
IsHaveOf(p, m) == m.type = "Have" /\ m.peer = p

\* C23: the scheduler handles a Have of peer P only after the PeerPieces
\* that P's session emitted earlier: a Have waiting in the scheduler's
\* channel comes from a session that has emitted its PeerPieces, and no
\* PeerPieces of the same peer waits behind it.
C23_HaveAfterOwnPeerPieces ==
    \A p \in Peers : \A k \in 1 .. Len(pm_inbox) :
        IsHaveOf(p, pm_inbox[k]) =>
            /\ session[p] # "connecting"
            /\ \A j \in k .. Len(pm_inbox) : ~IsPeerPiecesOf(p, pm_inbox[j])

\* C23 witness: a Have waits in the channel behind the PeerPieces of the
\* same peer.
C23_Witness ==
    \E p \in Peers : \E j, k \in 1 .. Len(pm_inbox) :
        /\ j < k
        /\ IsPeerPiecesOf(p, pm_inbox[j])
        /\ IsHaveOf(p, pm_inbox[k])

\* C22: once run_with_torrent has sent Stop to the scheduler, the connection
\* manager and the verifier, no message is sent to a worker that has handled
\* its Stop and left its receive loop.
C22_NoEventForAStoppedWorker ==
    [][app_state' = "stopping" =>
          /\ Len(pm_inbox') > Len(pm_inbox) => pm_state # "stopped"
          /\ Len(cm_inbox') > Len(cm_inbox) => cm_state # "stopped"
          /\ \A p \in Peers, i \in Pieces : \A bytes \in ServedBytes(i) :
                SessionSuccessfulDownload(p, bytes) => saver_state # "stopped"]_vars

\* The verifier's write of a verified piece fails in this step.
WriteFails == saver_state = "listening" /\ saver_state' = "panicked"

\* C24: when writing a verified piece to disk fails, the verifier propagates
\* a terminal error: the step in which the write fails, the verifier's last,
\* sends the error to the scheduler or a stop to the connection manager.
C24_WriteFailureIsPropagated ==
    [][WriteFails =>
          \/ Len(pm_inbox') > Len(pm_inbox)
          \/ Len(cm_inbox') > Len(cm_inbox)
          \/ pm_state' \in {"failed", "stopped"}]_vars

\* C25: encode emits a Dictionary as 'd', its entries as encoded key and
\* encoded value in ascending byte-wise key order whatever the order of the
\* map, then 'e', so the bytes depend on the entries alone, and encoding a
\* parse of these bytes yields the same bytes.
C25_DictionaryEncodesSorted ==
    /\ benc_bytes # <<>> => benc_bytes = Canonical(benc_value)
    /\ benc_again # <<>> => benc_again = benc_bytes

\* C25 witness: a dictionary that iterates in descending key order, one key a
\* prefix of the other, with a dictionary among its values, was encoded, and
\* a parse of the bytes was encoded again.
C25_Witness ==
    /\ benc_value # NoValue
    /\ Len(benc_value.items) = 2
    /\ benc_value.items[1].key = <<97, 97>>
    /\ benc_value.items[2].key = <<97>>
    /\ benc_value.items[1].value.kind = "Dictionary"
    /\ benc_again # <<>>

\* The scheduler handles the failure event at the head of its channel.
FailureHandled == PMHandles("FailedConnection") \/ PMHandles("FailedDownload")

\* The session that run_with_torrent runs itself meets an error in this step.
SessionFails == \E error \in SessionErrors : AppPeerSessionFails(error)

\* The last event sent to the scheduler in this step, if one was sent.
EventSent(types) ==
    /\ Len(pm_inbox') = Len(pm_inbox) + 1
    /\ pm_inbox'[Len(pm_inbox')].type \in types

\* C31: a transport or protocol error of one peer session becomes a
\* FailedConnection or FailedDownload event for that peer, and the scheduler
\* goes on; when the scheduler handles the event it keeps running, every
\* other peer keeps the piece it is assigned and its place in every
\* availability set, and no session changes.
C31_SessionErrorIsIsolated ==
    [][/\ SessionFails =>
            /\ EventSent({"FailedConnection", "FailedDownload"})
            /\ pm_state' = pm_state
       /\ FailureHandled =>
            LET p == Head(pm_inbox).peer
            IN  /\ pm_state' = "running"
                /\ \A q \in Peers \ {p} :
                     q \in DOMAIN piece_asked_to =>
                        /\ q \in DOMAIN piece_asked_to'
                        /\ piece_asked_to'[q] = piece_asked_to[q]
                /\ DOMAIN allowed_peers_to_download_piece'
                        = DOMAIN allowed_peers_to_download_piece
                /\ \A i \in DOMAIN allowed_peers_to_download_piece :
                     allowed_peers_to_download_piece'[i] \ {p}
                        = allowed_peers_to_download_piece[i] \ {p}
                /\ session' = session
    ]_vars

\* A message of the given type waits in the channel.
Waiting(inbox, type) == \E k \in 1 .. Len(inbox) : inbox[k].type = type

\* C32: once run_with_torrent is past its peer session, on the way to the
\* joins or on the way out with an error, every worker that is still in its
\* receive loop has its stop message in its channel (a worker that is never
\* sent its stop never leaves its loop).
C32_EveryPathStopsTheWorkers ==
    app_state # "running" =>
        /\ pm_state = "running" => Waiting(pm_inbox, "Stop")
        /\ cm_state = "running" => Waiting(cm_inbox, "CloseConnections")
        /\ saver_state = "listening" => Waiting(saver_inbox, "StopSaving")

\* A torrent whose total length is no multiple of the piece length: the last
\* piece is one byte short.
TotalLength == NumPieces * PieceLength - 1

\* min(L_p, L_t - i * L_p), the length of piece i
PieceSize(i) ==
    IF TotalLength - i * PieceLength < PieceLength
    THEN TotalLength - i * PieceLength ELSE PieceLength

\* The bytes of piece i, and the part of them a Request(i, begin, length)
\* covers.
PieceContent(i) == SubSeq(File[i], 1, PieceSize(i))
RangeContent(i, begin, length) ==
    SubSeq(PieceContent(i), begin + 1,
           IF begin + length <= PieceSize(i) THEN begin + length ELSE PieceSize(i))

\* Every Request was answered, each with the content of the range asked for.
CorrectlyServed ==
    /\ Len(blocks) = Len(RequestsSent)
    /\ \A k \in 1 .. Len(blocks) :
         blocks[k].block =
            RangeContent(download.piece_index, blocks[k].begin, download.block_size)

\* C33: for every piece, the last and shorter one included, every Request
\* the session sends for it stays inside the piece, offset + length <=
\* min(L_p, L_t - i * L_p), and when request_piece returns after the peer
\* served every range correctly, it returns the bytes of the piece, exactly
\* that many.
C33_RequestsStayInsideThePiece ==
    download # NoValue =>
        /\ \A k \in 1 .. Len(RequestsSent) :
             RequestsSent[k].begin + RequestsSent[k].length
                <= PieceSize(download.piece_index)
        /\ (conn_pc = "returned" /\ CorrectlyServed) =>
                piece_result = Ok(PieceContent(download.piece_index))
====
